---- MODULE Spec2Model ----
(***************************************************************************)
(* SolarMatch backend: the roof-area / energy-yield pipeline               *)
(* (core/resultMath.py, core/geotiff_processor.py) and the multi-source    *)
(* selector (core/unified_solar_service.py) behind GET /api/solar/analysis.*)
(*                                                                         *)
(* Numbers are exact rationals [num, den] (den > 0); den = 0 encodes       *)
(* Python's None.  A raster is a sequence of runs: n pixels that carry the *)
(* same mask sample and the same flux sample.  Every raster operation the  *)
(* code uses (count_nonzero, mean, >, &) is per pixel or a sum over        *)
(* pixels, so the order of the pixels inside the grid does not matter.     *)
(* round(x, 2) is modelled on the exact value (ties to even); the code     *)
(* rounds the nearest binary double.                                       *)
(*                                                                         *)
(* Further parts, each with a specification of its own over the same       *)
(* variables: get_statistics on plain and masked arrays (StatsSpec), the   *)
(* GeoTIFF byte cache under concurrent downloads (CacheSpec), the SEAI     *)
(* grant (GrantSpec), the chat sessions of core/chatbot (ChatSpec), the    *)
(* selector under fair scheduling of its awaits (LiveSpec), and the        *)
(* application start-up with the community joins of                        *)
(* core/community_service.py (AppSpec, AppLiveSpec).                       *)
(***************************************************************************)
EXTENDS Integers, Sequences, FiniteSets, TLC

\* ---------------------------------------------------------------- bounds
MaxRuns == 2

\* sample values and run lengths the rasters are built from
MaskVals == {0, 1, 2}
\* small rasters take every combination of a few samples; grid rasters
\* are the 500- and 1000-pixel areas of the spec's scenarios
SmallFluxVals == {0, 3, 5}
SmallRunLens == {1, 2}
GridFluxVals == {0, 1000}
GridRunLens == {500, 1000}
PixelSizes == {<<1, 1>>, <<1, 2>>}
\* the nodata sentinel the flux rasters declare in their metadata
nodata == -9999
\* per-kWp yields (E_y) the modeled provider may report
YieldVals == {0, 950, 1000}
\* estimated_roof_area values a caller may supply (the query parameter
\* has no lower limit)
HintVals == {0, 120, -110}

\* ------------------------------------------------------------- rationals
Abs(x) == IF x < 0 THEN -x ELSE x

RECURSIVE GCD(_, _)
GCD(a, b) == IF b = 0 THEN a ELSE GCD(b, a % b)

Rat(n, d) ==
    LET g == GCD(Abs(n), Abs(d))
        s == IF d < 0 THEN -1 ELSE 1
    IN  [num |-> s * (n \div g), den |-> s * (d \div g)]

Int2Rat(n) == [num |-> n, den |-> 1]
Zero == Int2Rat(0)
NoneVal == [num |-> 0, den |-> 0]
IsNone(r) == r.den = 0

RMul(a, b) ==
    LET x == Rat(a.num, b.den)
        y == Rat(b.num, a.den)
    IN  [num |-> x.num * y.num, den |-> x.den * y.den]

RDiv(a, b) == RMul(a, Rat(b.den, b.num))

RAdd(a, b) == Rat(a.num * b.den + b.num * a.den, a.den * b.den)
RSub(a, b) == RAdd(a, [num |-> -b.num, den |-> b.den])

RLess(a, b) == a.num * b.den < b.num * a.den
RLeq(a, b) == a.num * b.den <= b.num * a.den
RMin(a, b) == IF RLeq(a, b) THEN a ELSE b

\* nearest integer to n/d (d > 0), ties to even
RoundDiv(n, d) ==
    LET q == n \div d
        r == n % d
    IN  IF 2 * r < d THEN q
        ELSE IF 2 * r > d THEN q + 1
        ELSE IF q % 2 = 0 THEN q ELSE q + 1

\* Python round(x, 2)
Round2(x) ==
    LET q == x.num \div x.den
        r == x.num % x.den
    IN  Rat(100 * q + RoundDiv(100 * r, x.den), 100)

\* ---------------------------------------------------------------- rasters
\* a sample is a number or a non-finite value (NaN); in a numpy
\* MaskedArray a sample can also be masked.  rasterio's src.read() is
\* called without masked=True, so geotiff_to_array returns a plain
\* ndarray: no sample of a decoded raster is masked, and a pixel without
\* data holds the sentinel as an ordinary number
NaN == [finite |-> FALSE, v |-> 0, masked |-> FALSE]
Sample(x) == [finite |-> TRUE, v |-> x, masked |-> FALSE]
MaskedSample(x) == [finite |-> TRUE, v |-> x, masked |-> TRUE]
FluxSamples(vals) == {NaN} \cup {Sample(x) : x \in vals}

\* a run: n pixels whose mask sample is `mask` and whose flux sample is
\* `flux`; a raster is a sequence of runs
SmallRuns == [mask : MaskVals,
              flux : FluxSamples(SmallFluxVals \cup {nodata}),
              n : SmallRunLens]
GridRuns == [mask : MaskVals, flux : FluxSamples(GridFluxVals),
             n : GridRunLens]
Rasters == UNION {[1..k -> SmallRuns] \cup [1..k -> GridRuns] :
                     k \in 1..MaxRuns}

\* faulty variant: array.compressed() is forgotten
C13_valid_sample(s) == s.finite

\* GeoTIFFProcessor.get_statistics, lines 361-365: compressed() drops the
\* masked samples, array[np.isfinite(array)] the non-finite ones
valid_sample(s) == ~s.masked /\ s.finite

RECURSIVE FiniteCount(_)
FiniteCount(runs) ==
    IF runs = <<>> THEN 0
    ELSE (IF valid_sample(Head(runs).flux) THEN Head(runs).n ELSE 0)
         + FiniteCount(Tail(runs))

RECURSIVE FiniteSum(_)
FiniteSum(runs) ==
    IF runs = <<>> THEN 0
    ELSE (IF valid_sample(Head(runs).flux)
          THEN Head(runs).n * Head(runs).flux.v ELSE 0)
         + FiniteSum(Tail(runs))

\* the values left after the two filters
FiniteValues(runs) ==
    {runs[i].flux.v : i \in {j \in 1..Len(runs) : valid_sample(runs[j].flux)}}

SetMin(S) == CHOOSE x \in S : \A y \in S : x <= y
SetMax(S) == CHOOSE x \in S : \A y \in S : y <= x

\* number of remaining samples that are <= x
RECURSIVE CountLeq(_, _)
CountLeq(runs, x) ==
    IF runs = <<>> THEN 0
    ELSE (IF valid_sample(Head(runs).flux) /\ Head(runs).flux.v <= x
          THEN Head(runs).n ELSE 0)
         + CountLeq(Tail(runs), x)

\* the k-th smallest remaining sample (k >= 1)
KthSmallest(runs, k) ==
    SetMin({x \in FiniteValues(runs) : CountLeq(runs, x) >= k})

\* np.median: the middle sample, or the mean of the two middle samples
Median(runs) ==
    LET c == FiniteCount(runs)
    IN  IF c % 2 = 1 THEN Int2Rat(KthSmallest(runs, (c + 1) \div 2))
        ELSE Rat(KthSmallest(runs, c \div 2)
                 + KthSmallest(runs, c \div 2 + 1), 2)

\* the returned dictionary; of std only whether it is a number is kept
get_statistics(runs) ==
    IF FiniteCount(runs) = 0
    THEN [min |-> NoneVal, max |-> NoneVal, mean |-> NoneVal,
          std_is_none |-> TRUE, median |-> NoneVal, count |-> 0]
    ELSE [min |-> Int2Rat(SetMin(FiniteValues(runs))),
          max |-> Int2Rat(SetMax(FiniteValues(runs))),
          mean |-> Rat(FiniteSum(runs), FiniteCount(runs)),
          std_is_none |-> FALSE,
          median |-> Median(runs),
          count |-> FiniteCount(runs)]

\* np.count_nonzero(mask_array)
RECURSIVE roof_pixels(_)
roof_pixels(runs) ==
    IF runs = <<>> THEN 0
    ELSE (IF Head(runs).mask # 0 THEN Head(runs).n ELSE 0)
         + roof_pixels(Tail(runs))

\* flux_threshold = flux_stats.get('mean', 0) * 0.75
flux_threshold(mean) == RMul(mean, Rat(75, 100))

\* good_flux_mask = flux_array > flux_threshold  (NaN > x is False)
good_flux_mask(flux, threshold) ==
    flux.finite /\ RLess(threshold, Int2Rat(flux.v))

\* the integer operator & of numpy
RECURSIVE BitAnd(_, _)
BitAnd(a, b) ==
    IF a = 0 \/ b = 0 THEN 0
    ELSE (a % 2) * (b % 2) + 2 * BitAnd(a \div 2, b \div 2)

\* faulty variant: | written for &
C1_combined_mask(mask, good) == IF good THEN 1 ELSE mask

\* combined_mask = mask_array & good_flux_mask: the boolean operand is
\* promoted to the mask's integer type (True = 1, False = 0)
combined_mask(mask, good) == BitAnd(mask, IF good THEN 1 ELSE 0)

\* usable_pixels = np.count_nonzero(combined_mask)
RECURSIVE usable_pixels(_, _)
usable_pixels(runs, threshold) ==
    IF runs = <<>> THEN 0
    ELSE (IF combined_mask(Head(runs).mask,
                           good_flux_mask(Head(runs).flux, threshold)) # 0
          THEN Head(runs).n ELSE 0)
         + usable_pixels(Tail(runs), threshold)

\* pixel_area = pixel_size_x * pixel_size_y
pixel_area(resolution) == Int2Rat(resolution[1] * resolution[2])

\* ------------------------------------------------- capacity, energy model
practical_factor == Rat(55, 100)
performance_ratio == Rat(82, 100)
area_per_kwp == Rat(55, 10)
panel_efficiency == Rat(20, 100)

\* usable_roof_area = theoretically_usable_area * 0.55
usable_roof_area_of(theoretical) == RMul(theoretical, practical_factor)

\* faulty variant: the capacity is never below one kWp
C9_estimated_capacity_kwp(usable) ==
    IF RLess(area_per_kwp, usable) THEN RDiv(usable, area_per_kwp)
    ELSE Int2Rat(1)

\* estimated_capacity_kwp = usable / area_per_kwp if usable > 0 else 0
estimated_capacity_kwp(usable) ==
    IF RLess(Zero, usable) THEN RDiv(usable, area_per_kwp) ELSE Zero

\* faulty variant: the panel efficiency is applied on top (the old formula)
C7_annual_energy_kwh(capacity, mean_flux) ==
    RMul(RMul(RMul(capacity, mean_flux), panel_efficiency), performance_ratio)

\* annual_energy_kwh = estimated_capacity_kwp * mean_flux * performance_ratio
annual_energy_kwh(capacity, mean_flux) ==
    RMul(RMul(capacity, mean_flux), performance_ratio)

\* mean_flux = flux_stats.get('mean', 0) or 0
mean_flux_of(stats) == IF IsNone(stats.mean) THEN Zero ELSE stats.mean

\* ------------------------------------------------- SolarAnalysis.analyze
\* what a raster fetch can end in: bytes that decode, a failed download
\* (raise_for_status / network error) or bytes rasterio cannot open
FetchOutcomes == {"ok", "transfer_error", "decode_error"}

ErrorResult == [error |-> TRUE]

\* the three area figures of lines 40-72, given both decoded rasters
AreaEstimate(runs, resolution, mean) ==
    LET roof_area_sq_meters ==
            RMul(Int2Rat(roof_pixels(runs)), pixel_area(resolution))
        theoretically_usable_area ==
            RMul(Int2Rat(usable_pixels(runs, flux_threshold(mean))),
                 pixel_area(resolution))
    IN  [roof_area_sq_meters |-> roof_area_sq_meters,
         theoretically_usable_area |-> theoretically_usable_area,
         usable_roof_area |-> usable_roof_area_of(theoretically_usable_area)]

\* how the grid of the mask raster relates to that of the flux raster:
\* the same shape; a mask of one row under a flux raster of two equal rows,
\* which numpy broadcasts; or shapes that numpy cannot broadcast
GridShapes == {"same", "broadcast", "incompatible"}

\* the flux raster of a broadcast pair: each run once per row
Stacked(runs) == [i \in 1..Len(runs) |-> [runs[i] EXCEPT !.n = 2 * runs[i].n]]
FluxGrid(runs, shapes) == IF shapes = "broadcast" THEN Stacked(runs) ELSE runs

\* lines 52-72 for a broadcast pair: count_nonzero(mask_array) counts the
\* one mask row, mask_array & good_flux_mask has the shape of the flux grid
BroadcastEstimate(runs, resolution, mean) ==
    LET theoretically_usable_area ==
            RMul(Int2Rat(usable_pixels(Stacked(runs), flux_threshold(mean))),
                 pixel_area(resolution))
    IN  [roof_area_sq_meters |->
             RMul(Int2Rat(roof_pixels(runs)), pixel_area(resolution)),
         theoretically_usable_area |-> theoretically_usable_area,
         usable_roof_area |-> usable_roof_area_of(theoretically_usable_area)]

\* without a maskUrl the three figures keep their initial value 0
NoMaskEstimate ==
    [roof_area_sq_meters |-> Zero,
     theoretically_usable_area |-> Zero,
     usable_roof_area |-> Zero]

\* the returned dictionary, lines 74-117
AnalysisResult(flux_stats, est) ==
    LET capacity == estimated_capacity_kwp(est.usable_roof_area)
        energy == annual_energy_kwh(capacity, mean_flux_of(flux_stats))
    IN  [error |-> FALSE,
         flux_stats |-> flux_stats,
         estimated_roof_area_sq_meters |-> Round2(est.roof_area_sq_meters),
         usable_roof_area_sq_meters |-> Round2(est.usable_roof_area),
         estimated_capacity_kwp |-> Round2(capacity),
         estimated_annual_energy_kwh |-> Round2(energy),
         theoretically_usable_area_m2 |->
             IF RLess(Zero, est.usable_roof_area)
             THEN Round2(est.theoretically_usable_area) ELSE Zero]

\* mask branch, lines 44-72: a failed fetch raises, and so does
\* None * 0.75 when the flux raster has no finite sample
mask_branch_raises(mask_fetch, flux_stats) ==
    mask_fetch # "ok" \/ IsNone(flux_stats.mean)

\* line 61: mask_array & good_flux_mask raises ValueError ("operands could
\* not be broadcast together") for shapes numpy cannot broadcast
and_raises(shapes) == shapes = "incompatible"

\* faulty variant: data_layers['maskUrl'] read without .get raises KeyError
C10_analyze(data_layers, flux_fetch, mask_fetch, runs, resolution, shapes) ==
    IF ~data_layers.annualFluxUrl THEN ErrorResult
    ELSE IF flux_fetch # "ok" THEN ErrorResult
    ELSE IF ~data_layers.maskUrl THEN ErrorResult
    ELSE IF mask_branch_raises(mask_fetch, get_statistics(runs))
    THEN ErrorResult
    ELSE AnalysisResult(get_statistics(runs),
             AreaEstimate(runs, resolution, get_statistics(runs).mean))

analyze(data_layers, flux_fetch, mask_fetch, runs, resolution, shapes) ==
    IF ~data_layers.annualFluxUrl THEN ErrorResult
    ELSE IF flux_fetch # "ok" THEN ErrorResult
    ELSE LET flux_stats == get_statistics(FluxGrid(runs, shapes))
         IN  IF ~data_layers.maskUrl
             THEN AnalysisResult(flux_stats, NoMaskEstimate)
             ELSE IF mask_branch_raises(mask_fetch, flux_stats)
             THEN ErrorResult
             ELSE IF and_raises(shapes) THEN ErrorResult
             ELSE IF shapes = "broadcast"
             THEN AnalysisResult(flux_stats,
                      BroadcastEstimate(runs, resolution, flux_stats.mean))
             ELSE AnalysisResult(flux_stats,
                      AreaEstimate(runs, resolution, flux_stats.mean))

\* --------------------------------- UnifiedSolarService._get_pvgis_analysis
default_roof_area == Int2Rat(100)
usability_factor == Rat(55, 100)
pvgis_performance_ratio == Rat(82, 100)
\* faulty variant: the 6.5 m2/kWp of the design text
C12_pvgis_area_per_kwp == Rat(65, 10)
pvgis_area_per_kwp == Rat(55, 10)

\* answers of PVGISClient.get_solar_radiation: an exception, or a
\* dictionary whose annual_pv_energy_per_kwp is E_y, None when absent
PvgisAnswers ==
    {[status |-> "raised", annual_pv_energy_per_kwp |-> NoneVal]}
    \cup {[status |-> "ok", annual_pv_energy_per_kwp |-> y] :
             y \in {NoneVal} \cup {Int2Rat(v) : v \in YieldVals}}

\* faulty variant: `if not estimated_roof_area` also replaces a supplied 0
C11_roof_area_used(estimated_roof_area) ==
    IF IsNone(estimated_roof_area) \/ estimated_roof_area = Zero
    THEN default_roof_area
    ELSE estimated_roof_area

\* if estimated_roof_area is None: estimated_roof_area = 100.0
roof_area_used(estimated_roof_area) ==
    IF IsNone(estimated_roof_area) THEN default_roof_area
    ELSE estimated_roof_area

\* max_capacity_kwp = usable_roof_area / area_per_kwp
max_capacity_kwp(usable) == RDiv(usable, pvgis_area_per_kwp)

\* annual_energy_kwh = annual_energy_per_kwp * max_capacity_kwp * performance_ratio
pvgis_annual_energy_kwh(annual_energy_per_kwp, capacity) ==
    RMul(RMul(annual_energy_per_kwp, capacity), pvgis_performance_ratio)

\* the try block fails when the provider raises or when E_y is None
\* (None * float is a TypeError); both end in `raise Exception(...)`
pvgis_analysis_raises(answer) ==
    answer.status = "raised" \/ IsNone(answer.annual_pv_energy_per_kwp)

pvgis_result(answer, estimated_roof_area) ==
    LET area == roof_area_used(estimated_roof_area)
        usable == RMul(area, usability_factor)
        capacity == max_capacity_kwp(usable)
        energy == pvgis_annual_energy_kwh(answer.annual_pv_energy_per_kwp,
                                          capacity)
    IN  [error |-> FALSE,
         data_source |-> "PVGIS",
         has_imagery |-> FALSE,
         flux_mean |-> answer.annual_pv_energy_per_kwp,
         estimated_roof_area_sq_meters |-> area,
         usable_roof_area_sq_meters |-> Round2(usable),
         estimated_capacity_kwp |-> Round2(capacity),
         estimated_annual_energy_kwh |-> Round2(energy),
         theoretically_usable_area_m2 |-> area,
         seai_grant |-> RLess(Zero, capacity)]

\* faulty variant: the except clause returns an empty estimate
C3_pvgis_analysis(answer, estimated_roof_area) ==
    IF pvgis_analysis_raises(answer)
    THEN [raised |-> FALSE,
          result |-> pvgis_result([status |-> "ok",
                                   annual_pv_energy_per_kwp |-> Zero],
                                  estimated_roof_area)]
    ELSE [raised |-> FALSE,
          result |-> pvgis_result(answer, estimated_roof_area)]

\* lines 105-195: the result, or the exception of lines 193-195
pvgis_analysis(answer, estimated_roof_area) ==
    IF pvgis_analysis_raises(answer)
    THEN [raised |-> TRUE, result |-> [error |-> FALSE, data_source |-> "none"]]
    ELSE [raised |-> FALSE,
          result |-> pvgis_result(answer, estimated_roof_area)]

\* ------------------------------ UnifiedSolarService.get_solar_analysis
Google == "Google Solar API"
Pvgis == "PVGIS"

\* answers of SolarAPIClient.get_data_layers: an HTTPException, or the
\* dictionary of layer URLs, of which any may be missing
LayerAnswers ==
    {[status |-> "raised", annualFluxUrl |-> FALSE, maskUrl |-> FALSE]}
    \cup [status : {"ok"}, annualFluxUrl : BOOLEAN, maskUrl : BOOLEAN]

NoLayers == [status |-> "none", annualFluxUrl |-> FALSE, maskUrl |-> FALSE]
NoAnswer == [status |-> "none", annual_pv_energy_per_kwp |-> NoneVal]
NoResult == [error |-> FALSE, data_source |-> "none"]
NoFetch == [flux_fetch |-> "none", mask_fetch |-> "none",
            runs |-> <<>>, resolution |-> <<1, 1>>, shapes |-> "same"]

\* the answer get_data_layers gives when the request fails or times out
\* (httpx.RequestError -> HTTPException 503)
RaisedLayers ==
    [status |-> "raised", annualFluxUrl |-> FALSE, maskUrl |-> FALSE]
\* PVGISClient: httpx.HTTPError -> Exception("PVGIS API error")
RaisedAnswer == [status |-> "raised", annual_pv_energy_per_kwp |-> NoneVal]

\* httpx timeouts in seconds; timeout=None would wait without limit
NoTimeout == 0
\* faulty variant: the data-layers client is built with timeout=None
C17_solar_api_timeout == NoTimeout
solar_api_timeout == 30
download_timeout == 60
pvgis_timeout == 30

\* a provider answers a request (with data or an error status), or it
\* stays silent; an await on a silent provider ends only by the timeout
Behaviours == {"answers", "silent"}
await_completes(timeout, behaviour) ==
    behaviour = "answers" \/ timeout # NoTimeout

\* faulty variant: a missing flux reference is reported as an error
C2_after_data_layers(layers) ==
    IF layers.status = "raised" THEN "FallbackToModeled"
    ELSE IF layers.annualFluxUrl THEN "Analyze"
    ELSE "Unavailable"

\* lines 54-61 and 85-86: where control goes after get_data_layers
after_data_layers(layers) ==
    IF layers.status = "raised" THEN "FallbackToModeled"
    ELSE IF layers.annualFluxUrl THEN "Analyze"
    ELSE "FallbackToModeled"

\* faulty variant: a supplied roof area selects the modeled provider directly
C5_entry_state(roof_area_hint) ==
    IF IsNone(roof_area_hint) THEN "TryHighRes" ELSE "FallbackToModeled"

\* lines 50-52: the first step of every request, whatever the arguments
entry_state(roof_area_hint) == "TryHighRes"

\* faulty variant: an analysis without capacity is treated as a failure
C6_analysis_usable(r) ==
    ~r.error /\ RLess(Zero, r.estimated_capacity_kwp)

\* line 68: if not result.get('error')
analysis_usable(r) == ~r.error

\* faulty variant: an analysis error is raised to the caller
C4_after_analysis(r) ==
    IF ~r.error THEN "Success" ELSE "Unavailable"

\* lines 68-81: return the result, or fall through to Step 2
after_analysis(r) ==
    IF analysis_usable(r) THEN "Success" ELSE "FallbackToModeled"

\* lines 69-78: the analysis dictionary with the selector's additions
google_result(r) ==
    [error |-> FALSE,
     data_source |-> Google,
     has_imagery |-> TRUE,
     flux_mean |-> r.flux_stats.mean,
     estimated_roof_area_sq_meters |-> r.estimated_roof_area_sq_meters,
     usable_roof_area_sq_meters |-> r.usable_roof_area_sq_meters,
     estimated_capacity_kwp |-> r.estimated_capacity_kwp,
     estimated_annual_energy_kwh |-> r.estimated_annual_energy_kwh,
     theoretically_usable_area_m2 |-> r.theoretically_usable_area_m2,
     seai_grant |-> RLess(Zero, r.estimated_capacity_kwp)]

Hints == {NoneVal} \cup {Int2Rat(h) : h \in HintVals}

\* (latitude, longitude) of a request, in whole degrees
Locations == {<<53, -6>>, <<52, -10>>}
NoLocation == <<0, 0>>
NotQueried == [google |-> NoLocation, pvgis |-> NoLocation]

\* the query parameters of GET /api/solar/analysis: every location
\* without a roof area, and every roof area at the first location (no
\* code of the request relates the two)
Requests ==
    [location : Locations, estimated_roof_area : {NoneVal}]
    \cup [location : {<<53, -6>>}, estimated_roof_area : Hints]

\* faulty variant: the fallback asks for a fixed default location
C20_pvgis_coordinates(location) == <<53, -6>>

\* lines 88-94 and 105-108: latitude and longitude are handed on as given
pvgis_coordinates(location) == location

VARIABLES pc, estimated_roof_area, layers, fetched, analysis, pvgis,
          result, calls, response

\* the coordinates of the request and those each provider was asked about
VARIABLES location, queried

\* an array handed to get_statistics and the dictionary it returned
VARIABLES stats_array, stats

\* the cache directory (cache_key -> bytes of <cache_key>.tif), the
\* download_geotiff calls of each caller, and for each key the bytes the
\* latest returned call with that key gave since the cache was last cleared
VARIABLES cache, downloads, returned

\* the layers an analysis has downloaded since the cache was last cleared
VARIABLES analysed

\* a capacity handed to calculate_solar_pv_grant and the amount returned
VARIABLES system_capacity_kwp, grant_amount

\* ChatbotService.sessions (session_id -> history), the chat requests of
\* each client, the number of session ids generated so far, and the ids a
\* response has handed out and no clear_session has deleted since
VARIABLES sessions, chats, generated, issued

solar_vars == <<pc, estimated_roof_area, layers, fetched, analysis, pvgis,
                result, calls, response, location, queried>>
stats_vars == <<stats_array, stats>>

cache_vars == <<cache, downloads, returned, analysed>>

grant_vars == <<system_capacity_kwp, grant_amount>>

chat_vars == <<sessions, chats, generated, issued>>

\* main.py: the application after startup_event, the module-level
\* chatbot_service, and the status of the last POST /api/chatbot
VARIABLES started, use_database, chatbot_service, chat_status

\* the stored community, the stored participants, and the
\* POST /api/coops/join requests in progress
VARIABLES community, participants, joins

app_vars == <<started, use_database, chatbot_service, chat_status,
              community, participants, joins>>

vars == <<solar_vars, stats_vars, cache_vars, grant_vars, chat_vars,
          app_vars>>

\* what a step of the analysis request leaves alone
outside_solar == <<stats_vars, cache_vars, grant_vars, chat_vars,
                    app_vars>>
outside_stats == <<solar_vars, cache_vars, grant_vars, chat_vars,
                    app_vars>>
outside_cache == <<solar_vars, stats_vars, grant_vars, chat_vars,
                    app_vars>>
outside_grant == <<solar_vars, stats_vars, cache_vars, chat_vars,
                    app_vars>>
outside_chat == <<solar_vars, stats_vars, cache_vars, grant_vars,
                   app_vars>>

outside_app == <<solar_vars, stats_vars, cache_vars, grant_vars, chat_vars>>

\* ------------------------------------------- application and communities
\* main.py line 28: chatbot_service = None
NoService == "None"
ChatbotService == "ChatbotService"

\* joins accepted in one behaviour, and the join requests that may overlap
MaxJoins == 3
Joiners == {1, 2}

\* no community stored under the id of the request
NoCommunity == [exists |-> FALSE,
                participant_count |-> 0, interested_count |-> 0,
                total_capacity_kwp |-> Zero,
                total_annual_energy_kwh |-> Zero]

\* create_community lines 148-172: a new project with empty aggregates
create_community ==
    [exists |-> TRUE,
     participant_count |-> 0, interested_count |-> 0,
     total_capacity_kwp |-> Zero,
     total_annual_energy_kwh |-> Zero]

\* dict.get(key, default)
dict_get(d, key, default) == IF key \in DOMAIN d THEN d[key] ELSE default

\* feasibility = None
NoFeasibility == [capacity_kwp |-> NoneVal, annual_energy_kwh |-> NoneVal,
                  data_source |-> "none"]

\* join_community lines 193-204: the feasibility read from the answer
\* of get_solar_analysis, when the answer has a true "success"
SolarFeasibility(solar_data) ==
    IF dict_get(solar_data, "success", FALSE) = TRUE
    THEN LET analysis_dict == dict_get(solar_data, "analysis", <<>>)
         IN  [capacity_kwp |-> dict_get(analysis_dict, "capacity_kwp", Zero),
              annual_energy_kwh |->
                  dict_get(analysis_dict, "annual_energy_kwh", Zero),
              data_source |-> dict_get(solar_data, "source", "Unknown")]
    ELSE NoFeasibility

\* one-run roofs of a joining home
HomeRasters == {<<r>> : r \in {g \in GridRuns : g.mask # 0 /\ g.flux.finite}}

\* what unified_solar_service.get_solar_analysis(latitude, longitude)
\* gives a join: the high-resolution result, the modeled result with the
\* default roof area, or the exception of the modeled provider
JoinAnalyses ==
    {pvgis_analysis(a, NoneVal) : a \in PvgisAnswers}
    \cup {[raised |-> FALSE, result |-> google_result(r)] :
             r \in {x \in {analyze([status |-> "ok", annualFluxUrl |-> TRUE,
                                     maskUrl |-> TRUE],
                                    "ok", "ok", runs, <<1, 1>>, "same") :
                               runs \in HomeRasters} : ~x.error}}

NoAnalysis == [raised |-> TRUE, result |-> NoResult]

\* lines 189-206: no analysis without coordinates, and an exception of
\* the analysis is caught and leaves feasibility None
join_feasibility(with_location, outcome) ==
    IF with_location /\ ~outcome.raised
    THEN SolarFeasibility(outcome.result)
    ELSE NoFeasibility

\* HomeParticipant of lines 208-218, the id standing for the uuid4
HomeParticipant(id, feasibility) == [id |-> id, feasibility |-> feasibility]

\* the object the increments of lines 225-231 act on: the in-memory
\* repository hands out the stored object itself (community_repository.py
\* line 65), the database repository a CommunityProject built from the
\* row when get_community ran (lines 176-182)
joined_object(db, stored, fetched_copy) ==
    IF db THEN fetched_copy ELSE stored

\* lines 224-231: the aggregates after one more participant
update_aggregates(c, feasibility) ==
    [c EXCEPT !.participant_count = @ + 1,
              !.interested_count = @ + 1,
              !.total_capacity_kwp =
                  IF feasibility = NoFeasibility THEN @
                  ELSE RAdd(@, feasibility.capacity_kwp),
              !.total_annual_energy_kwh =
                  IF feasibility = NoFeasibility THEN @
                  ELSE RAdd(@, feasibility.annual_energy_kwh)]

NoJoin == [st |-> "idle", fetched_copy |-> NoCommunity,
           solar_data |-> NoAnalysis, participant |-> 0]

\* ------------------------------------------------------ chat sessions
\* two clients whose chat requests may overlap, and session ids: the n-th
\* generated "session-<uuid4>" is n (uuid4 values do not repeat)
MaxSessions == 2
Clients == {1, 2}
SessionIds == 1..MaxSessions
\* a request without session_id (None or "")
NoSession == 0

\* ChatbotConfig.MAX_HISTORY_MESSAGES: int(os.getenv(..., "10")); 2 here,
\* so that the truncation is reached within three exchanges
MAX_HISTORY_MESSAGES == 2

UserMessages == {"q1", "q2"}
Replies == {"a1"}
Message(role, content) == [role |-> role, content |-> content]

\* faulty variant: every request opens a new session
C19_get_or_create_session(store, session_id, count) ==
    [session_id |-> count + 1,
     sessions |-> [k \in DOMAIN store \cup {count + 1} |->
                      IF k = count + 1 THEN <<>> ELSE store[k]],
     history |-> <<>>,
     generated |-> count + 1]

\* _get_or_create_session: the stored session, or a new one with []
get_or_create_session(store, session_id, count) ==
    IF session_id # NoSession /\ session_id \in DOMAIN store
    THEN [session_id |-> session_id, sessions |-> store,
          history |-> store[session_id], generated |-> count]
    ELSE [session_id |-> count + 1,
          sessions |-> [k \in DOMAIN store \cup {count + 1} |->
                           IF k = count + 1 THEN <<>> ELSE store[k]],
          history |-> <<>>,
          generated |-> count + 1]

\* history[-max_messages:] (history[-0:] is the whole list)
LastMessages(history, n) ==
    IF n = 0 THEN history
    ELSE SubSeq(history, Len(history) - n + 1, Len(history))

\* faulty variant: the truncation keeps the oldest messages
C29_update_session_history(store, session_id, user_message, assistant_response) ==
    LET old == IF session_id \in DOMAIN store THEN store[session_id]
               ELSE <<>>
        appended == old \o <<Message("user", user_message),
                              Message("assistant", assistant_response)>>
        max_messages == MAX_HISTORY_MESSAGES * 2
        history == IF Len(appended) > max_messages
                   THEN SubSeq(appended, 1, max_messages)
                   ELSE appended
    IN  [sessions |-> [k \in DOMAIN store \cup {session_id} |->
                          IF k = session_id THEN history ELSE store[k]],
         history |-> history]

\* _update_session_history: append the pair, keep the last
\* MAX_HISTORY_MESSAGES * 2 messages, store and return them
update_session_history(store, session_id, user_message, assistant_response) ==
    LET old == IF session_id \in DOMAIN store THEN store[session_id]
               ELSE <<>>
        appended == old \o <<Message("user", user_message),
                              Message("assistant", assistant_response)>>
        max_messages == MAX_HISTORY_MESSAGES * 2
        history == IF Len(appended) > max_messages
                   THEN LastMessages(appended, max_messages)
                   ELSE appended
    IN  [sessions |-> [k \in DOMAIN store \cup {session_id} |->
                          IF k = session_id THEN history ELSE store[k]],
         history |-> history]

\* clear_session: del self.sessions[session_id] when present
clear_session(store, session_id) ==
    [k \in DOMAIN store \ {session_id} |-> store[k]]

NoChat == [st |-> "idle", session_id |-> NoSession, carried |-> NoSession,
           message |-> "", response |-> "", conversation_history |-> <<>>,
           created |-> FALSE, dropped |-> 0]

\* ------------------------------------------------------ the SEAI grant
\* capacities in hundredths of a kWp (the estimates are rounded to two
\* decimals) from -0.50 kWp upwards, and two large systems
MinCentiKwp == -50
MaxCentiKwp == 450
GrantCapacities ==
    {Rat(k, 100) : k \in MinCentiKwp..MaxCentiKwp}
    \cup {Int2Rat(10), Int2Rat(1000)}

\* faulty variant: the rates of the previous year (900 and 300 per kWp, at
\* most 2400)
C18_calculate_solar_pv_grant(capacity) ==
    IF RLeq(capacity, Zero) THEN Zero
    ELSE LET grant ==
                 IF RLeq(capacity, Int2Rat(2))
                 THEN RMul(capacity, Int2Rat(900))
                 ELSE RAdd(RMul(Int2Rat(2), Int2Rat(900)),
                           RMul(RMin(RSub(capacity, Int2Rat(2)), Int2Rat(2)),
                                Int2Rat(300)))
         IN  RMin(grant, Int2Rat(2400))

\* GrantsService.calculate_solar_pv_grant, lines 136-153
calculate_solar_pv_grant(capacity) ==
    IF RLeq(capacity, Zero) THEN Zero
    ELSE LET grant ==
                 IF RLeq(capacity, Int2Rat(2))
                 THEN RMul(capacity, Int2Rat(700))
                 ELSE RAdd(RMul(Int2Rat(2), Int2Rat(700)),
                           RMul(RMin(RSub(capacity, Int2Rat(2)), Int2Rat(2)),
                                Int2Rat(200)))
         IN  RMin(grant, Int2Rat(1800))

\* ------------------------------------------------------- the byte cache
\* concurrent callers of download_geotiff
MaxCallers == 2
Callers == 1..MaxCallers

\* cache keys as main.py builds them; NoKey is a call without cache_key
\* (None, or the empty string, which `if cache_key:` treats alike)
CacheKeys == {"flux_53.3_-6.2_50", "mask_53.3_-6.2_50"}
NoKey == "none"

\* response bodies, as byte strings
Contents == {<<1>>, <<2, 2>>}

\* cache_file.exists()
cache_file_exists(c, key) == key \in DOMAIN c

\* faulty variant: the cache is never consulted
C15_cache_hit(c, key) == FALSE

\* lines 45-48: if cache_key: ... if cache_file.exists(): return ...
cache_hit(c, key) == key # NoKey /\ cache_file_exists(c, key)

\* lines 63-65: if cache_key: cache_file.write_bytes(data)
cache_put(c, key, data) ==
    IF key = NoKey THEN c
    ELSE [k \in DOMAIN c \cup {key} |-> IF k = key THEN data ELSE c[k]]

\* faulty variant: the glob misses the mask files
C16_clear_cache(c) ==
    [k \in DOMAIN c \cap {"mask_53.3_-6.2_50"} |-> c[k]]

\* clear_cache: unlink every *.tif of the cache directory
clear_cache(c) == [k \in {} |-> <<>>]

\* get_cache_size: sum of the sizes of the *.tif files
RECURSIVE SumSizes(_, _)
SumSizes(c, keys) ==
    IF keys = {} THEN 0
    ELSE LET k == CHOOSE x \in keys : TRUE
         IN  Len(c[k]) + SumSizes(c, keys \ {k})
get_cache_size(c) == SumSizes(c, DOMAIN c)

\* a caller that is not inside download_geotiff
NoDownload == [st |-> "idle", key |-> NoKey, ret |-> <<>>,
               requested |-> FALSE, prior |-> {},
               layer |-> "none", repeat |-> FALSE]

\* the raster layers SolarAnalysis.analyze downloads
Layers == {"annualFluxUrl", "maskUrl"}

\* resultMath.py lines 35 and 45: download_geotiff(self.data_layers[...])
\* is called with the URL only, cache_key keeps its default None
analysis_cache_key(layer) == NoKey

\* what an earlier returned call with this key gave, if any
PriorBytes(r, key) == IF key \in DOMAIN r THEN {r[key]} ELSE {}
note_return(r, key, data) ==
    IF key = NoKey THEN r
    ELSE [k \in DOMAIN r \cup {key} |-> IF k = key THEN data ELSE r[k]]

\* arrays for get_statistics: plain or masked, with and without samples
\* that survive the filters
StatsSamples ==
    FluxSamples({0, 3, 5, nodata}) \cup {MaskedSample(3), MaskedSample(nodata)}
StatsRuns == [mask : {0}, flux : StatsSamples, n : SmallRunLens]
StatsArrays == UNION {[1..k -> StatsRuns] : k \in 0..MaxRuns}
NoStats == [count |-> -1]

Init ==
    /\ started = FALSE
    /\ use_database = FALSE
    /\ chatbot_service = NoService
    /\ chat_status = 0
    /\ community = NoCommunity
    /\ participants = <<>>
    /\ joins = [j \in Joiners |-> NoJoin]
    /\ sessions = clear_session(<<>>, NoSession)
    /\ chats = [c \in Clients |-> NoChat]
    /\ generated = 0
    /\ issued = {}
    /\ system_capacity_kwp = Zero
    /\ grant_amount = NoneVal
    /\ cache = clear_cache(<<>>)
    /\ downloads = [c \in Callers |-> NoDownload]
    /\ returned = clear_cache(<<>>)
    /\ analysed = {}
    /\ stats_array = <<>>
    /\ stats = NoStats
    /\ pc = "Idle"
    /\ location = NoLocation
    /\ queried = NotQueried
    /\ estimated_roof_area = NoneVal
    /\ layers = NoLayers
    /\ fetched = NoFetch
    /\ analysis = NoResult
    /\ pvgis = NoAnswer
    /\ result = NoResult
    /\ calls = <<>>
    /\ response = 0

\* GET /api/solar/analysis arrives (main.get_solar_analysis)
Request ==
    /\ pc = "Idle"
    /\ \E r \in Requests :
          /\ location' = r.location
          /\ estimated_roof_area' = r.estimated_roof_area
    /\ queried' = NotQueried
    /\ pc' = entry_state(estimated_roof_area')
    /\ layers' = NoLayers
    /\ fetched' = NoFetch
    /\ analysis' = NoResult
    /\ pvgis' = NoAnswer
    /\ result' = NoResult
    /\ calls' = <<>>
    /\ response' = 0
    /\ UNCHANGED outside_solar

\* Step 1: data_layers = await self.google_client.get_data_layers(...)
GetDataLayers ==
    /\ pc = "TryHighRes"
    /\ calls' = Append(calls, Google)
    /\ queried' = [queried EXCEPT !.google = location]
    /\ UNCHANGED location
    /\ \E b \in Behaviours :
          IF ~await_completes(solar_api_timeout, b)
          THEN pc' = "Hung" /\ layers' = layers
          ELSE \E a \in (IF b = "silent" THEN {RaisedLayers}
                          ELSE LayerAnswers) :
                  /\ layers' = a
                  /\ pc' = after_data_layers(a)
    /\ UNCHANGED <<estimated_roof_area, fetched, analysis, pvgis,
                   result, response>>
    /\ UNCHANGED outside_solar

\* what analyze can meet: the flux fetch, the mask fetch (made only when
\* the flux raster was decoded and a maskUrl exists) and the pixels
Fetches(a) ==
    {f \in [flux_fetch : FetchOutcomes,
            mask_fetch : FetchOutcomes \cup {"none"},
            runs : Rasters \cup {<<>>},
            resolution : PixelSizes,
            shapes : {"same"}]
        \cup [flux_fetch : {"ok"},
              mask_fetch : {"ok"},
              runs : [1..1 -> SmallRuns],
              resolution : {<<1, 1>>},
              shapes : GridShapes] :
        /\ (f.flux_fetch = "ok") = (f.runs # <<>>)
        /\ (f.mask_fetch # "none") = (f.flux_fetch = "ok" /\ a.maskUrl)
        /\ f.mask_fetch # "ok" =>
              /\ f.resolution = <<1, 1>>
              /\ \A i \in 1..Len(f.runs) : f.runs[i].mask = 0}

\* a download that ends by the timeout is a transfer error
TimedOutFetches(a) ==
    {f \in Fetches(a) : "transfer_error" \in {f.flux_fetch, f.mask_fetch}}

\* lines 64-81: result = await analyzer.analyze(), then the error check
RunAnalysis ==
    /\ pc = "Analyze"
    /\ \E b \in Behaviours :
          IF ~await_completes(download_timeout, b)
          THEN pc' = "Hung" /\ UNCHANGED <<fetched, analysis, result>>
          ELSE \E f \in (IF b = "silent" THEN TimedOutFetches(layers)
                          ELSE Fetches(layers)) :
                  /\ fetched' = f
                  /\ analysis' = analyze(layers, f.flux_fetch, f.mask_fetch,
                                         f.runs, f.resolution, f.shapes)
                  /\ pc' = after_analysis(analysis')
                  /\ result' = IF pc' = "Success"
                               THEN google_result(analysis') ELSE result
    /\ UNCHANGED <<estimated_roof_area, layers, pvgis, calls, response,
                   location, queried>>
    /\ UNCHANGED outside_solar

\* Step 2: return await self._get_pvgis_analysis(...)
Fallback ==
    /\ pc = "FallbackToModeled"
    /\ calls' = Append(calls, Pvgis)
    /\ queried' = [queried EXCEPT !.pvgis = pvgis_coordinates(location)]
    /\ UNCHANGED location
    /\ \E b \in Behaviours :
          IF ~await_completes(pvgis_timeout, b)
          THEN pc' = "Hung" /\ UNCHANGED <<pvgis, result>>
          ELSE \E a \in (IF b = "silent" THEN {RaisedAnswer}
                          ELSE PvgisAnswers) :
                  /\ pvgis' = a
                  /\ LET out == pvgis_analysis(a, estimated_roof_area)
                     IN  /\ result' = out.result
                         /\ pc' = IF out.raised THEN "Unavailable"
                                  ELSE "Success"
    /\ UNCHANGED <<estimated_roof_area, layers, fetched, analysis, response>>
    /\ UNCHANGED outside_solar

\* main.get_solar_analysis: return results, or HTTPException(500)
Respond ==
    /\ pc \in {"Success", "Unavailable"}
    /\ response' = IF pc = "Success" THEN 200 ELSE 500
    /\ pc' = "Idle"
    /\ UNCHANGED <<estimated_roof_area, layers, fetched, analysis, pvgis,
                   result, calls, location, queried>>
    /\ UNCHANGED outside_solar

Next == Request \/ GetDataLayers \/ RunAnalysis \/ Fallback \/ Respond

Spec == Init /\ [][Next]_vars

\* the event loop resumes get_solar_analysis when the awaited call has
\* completed, which every call does: with an answer, or by its timeout
LiveSpec ==
    /\ Init /\ [][Next]_vars
    /\ WF_vars(GetDataLayers) /\ WF_vars(RunAnalysis) /\ WF_vars(Fallback)

\* ------------------------------------------------- statistics of an array
\* a caller holds an array (decoded, or masked by np.ma.masked_equal)
ReadArray ==
    /\ \E a \in StatsArrays : stats_array' = a
    /\ stats' = NoStats
    /\ UNCHANGED outside_stats

\* statistics = geotiff_processor.get_statistics(array)
GetStatistics ==
    /\ stats = NoStats
    /\ stats' = get_statistics(stats_array)
    /\ UNCHANGED <<stats_array>>
    /\ UNCHANGED outside_stats

StatsNext == ReadArray \/ GetStatistics

StatsSpec == Init /\ [][StatsNext]_vars

\* ---------------------------------------------------------- chat requests
\* handle_chat up to the await: _get_or_create_session with the request's
\* session_id, then the text generation is awaited
ChatStart(c) ==
    /\ chats[c].st = "idle"
    /\ \E sid \in {NoSession} \cup SessionIds, msg \in UserMessages :
          LET got == get_or_create_session(sessions, sid, generated)
          IN  /\ got.generated <= MaxSessions
              /\ sessions' = got.sessions
              /\ generated' = got.generated
              /\ chats' = [chats EXCEPT ![c] =
                     [st |-> "generating", session_id |-> got.session_id,
                      carried |-> IF sid \in issued THEN sid ELSE NoSession,
                      message |-> msg, response |-> "",
                      conversation_history |-> <<>>,
                      created |-> got.generated # generated,
                      dropped |-> 0]]
    /\ UNCHANGED issued
    /\ UNCHANGED outside_chat

\* generate_response returned: _update_session_history and the ChatResponse
ChatReply(c) ==
    /\ chats[c].st = "generating"
    /\ \E reply \in Replies :
          LET upd == update_session_history(sessions, chats[c].session_id,
                                            chats[c].message, reply)
              before == IF chats[c].session_id \in DOMAIN sessions
                        THEN Len(sessions[chats[c].session_id]) ELSE 0
          IN  /\ sessions' = upd.sessions
              /\ chats' = [chats EXCEPT ![c].st = "responded",
                                        ![c].response = reply,
                                        ![c].conversation_history = upd.history,
                                        ![c].dropped =
                                            before + 2 - Len(upd.history)]
    /\ issued' = issued \cup {chats[c].session_id}
    /\ UNCHANGED generated
    /\ UNCHANGED outside_chat

\* generate_response raised: handle_chat logs and re-raises, the endpoint
\* answers with HTTP 500
ChatFail(c) ==
    /\ chats[c].st = "generating"
    /\ chats' = [chats EXCEPT ![c] = NoChat]
    /\ UNCHANGED <<sessions, generated, issued>>
    /\ UNCHANGED outside_chat

\* the endpoint has sent the response
ChatDone(c) ==
    /\ chats[c].st = "responded"
    /\ chats' = [chats EXCEPT ![c] = NoChat]
    /\ UNCHANGED <<sessions, generated, issued>>
    /\ UNCHANGED outside_chat

\* DELETE /api/chat/session/{session_id}
ClearSession ==
    /\ \E sid \in SessionIds :
          /\ sessions' = clear_session(sessions, sid)
          /\ issued' = issued \ {sid}
    /\ UNCHANGED <<chats, generated>>
    /\ UNCHANGED outside_chat

ChatNext ==
    \/ \E c \in Clients : ChatStart(c)
    \/ \E c \in Clients : ChatReply(c)
    \/ \E c \in Clients : ChatFail(c)
    \/ \E c \in Clients : ChatDone(c)
    \/ ClearSession

ChatSpec == Init /\ [][ChatNext]_vars

\* ----------------------------------------------------- grant calculation
\* a system size arrives (from an estimate, or from a grants query)
GrantQuery ==
    /\ \E c \in GrantCapacities : system_capacity_kwp' = c
    /\ grant_amount' = NoneVal
    /\ UNCHANGED outside_grant

\* grant_amount = grants_service.calculate_solar_pv_grant(capacity_kwp)
CalculateGrant ==
    /\ IsNone(grant_amount)
    /\ grant_amount' = calculate_solar_pv_grant(system_capacity_kwp)
    /\ UNCHANGED system_capacity_kwp
    /\ UNCHANGED outside_grant

GrantNext == GrantQuery \/ CalculateGrant

GrantSpec == Init /\ [][GrantNext]_vars

\* ------------------------------------------------ downloads and the cache
\* download_geotiff up to its first await: a cache hit returns the file's
\* bytes at once, a miss goes on to the GET
StartDownload(c, key, layer) ==
    /\ downloads[c].st = "idle"
    /\ IF cache_hit(cache, key)
       THEN /\ downloads' = [downloads EXCEPT ![c] =
                   [st |-> "returned", key |-> key, ret |-> cache[key],
                    requested |-> FALSE,
                    prior |-> PriorBytes(returned, key),
                    layer |-> layer, repeat |-> layer \in analysed]]
            /\ returned' = note_return(returned, key, cache[key])
       ELSE /\ downloads' = [downloads EXCEPT ![c] =
                   [st |-> "awaiting", key |-> key, ret |-> <<>>,
                    requested |-> FALSE,
                    prior |-> PriorBytes(returned, key),
                    layer |-> layer, repeat |-> layer \in analysed]]
            /\ returned' = returned
    /\ UNCHANGED <<cache, analysed>>
    /\ UNCHANGED outside_cache

\* a raster endpoint of main.py calls download_geotiff(url, cache_key)
DownloadStart(c) ==
    \E key \in CacheKeys \cup {NoKey} : StartDownload(c, key, "none")

\* analyze calls download_geotiff for the flux or the mask layer
AnalysisFetch(c) ==
    \E layer \in Layers : StartDownload(c, analysis_cache_key(layer), layer)

\* lines 57-67: the GET is sent and answered (or fails, or times out);
\* raise_for_status, the cache write and the return follow without an await
DownloadGet(c) ==
    /\ downloads[c].st = "awaiting"
    /\ \/ /\ downloads' = [downloads EXCEPT ![c].st = "raised",
                                            ![c].requested = TRUE]
          /\ UNCHANGED <<cache, returned, analysed>>
       \/ \E data \in Contents :
             /\ cache' = cache_put(cache, downloads[c].key, data)
             /\ returned' = note_return(returned, downloads[c].key, data)
             /\ downloads' = [downloads EXCEPT ![c].st = "returned",
                                               ![c].ret = data,
                                               ![c].requested = TRUE]
             /\ analysed' = analysed \cup (Layers \cap {downloads[c].layer})
    /\ UNCHANGED outside_cache

\* the caller takes the bytes (or the exception) and goes on
DownloadDone(c) ==
    /\ downloads[c].st \in {"returned", "raised"}
    /\ downloads' = [downloads EXCEPT ![c] = NoDownload]
    /\ UNCHANGED <<cache, returned, analysed>>
    /\ UNCHANGED outside_cache

\* DELETE /api/solar/cache: geotiff_processor.clear_cache()
ClearCache ==
    /\ cache' = clear_cache(cache)
    /\ returned' = clear_cache(returned)
    /\ downloads' = [c \in Callers |->
                        [downloads[c] EXCEPT !.prior = {}, !.repeat = FALSE]]
    /\ analysed' = {}
    /\ UNCHANGED outside_cache

CacheNext ==
    \/ \E c \in Callers : DownloadStart(c)
    \/ \E c \in Callers : AnalysisFetch(c)
    \/ \E c \in Callers : DownloadGet(c)
    \/ \E c \in Callers : DownloadDone(c)
    \/ ClearCache

CacheSpec == Init /\ [][CacheNext]_vars

\* ---------------------------------------- start-up, chatbot endpoint, joins
\* main.py lines 39-69: init_database() tells whether the repository
\* uses the database; nothing here assigns chatbot_service
StartupEvent ==
    /\ ~started
    /\ started' = TRUE
    /\ \E db_initialized \in BOOLEAN : use_database' = db_initialized
    /\ UNCHANGED <<chatbot_service, chat_status, community, participants,
                   joins>>
    /\ UNCHANGED outside_app

\* a POST /api/chatbot request arrives
ChatArrives ==
    /\ started
    /\ chat_status # 1
    /\ chat_status' = 1
    /\ UNCHANGED <<started, use_database, chatbot_service, community,
                   participants, joins>>
    /\ UNCHANGED outside_app

\* main.py lines 490-503: 503 while chatbot_service is None, otherwise
\* the request goes to handle_chat
ChatWithBot ==
    /\ chat_status = 1
    /\ chat_status' = IF chatbot_service = NoService THEN 503 ELSE 200
    /\ UNCHANGED <<started, use_database, chatbot_service, community,
                   participants, joins>>
    /\ UNCHANGED outside_app

\* POST /api/coops/create
CreateCommunity ==
    /\ started
    /\ ~community.exists
    /\ community' = create_community
    /\ UNCHANGED <<started, use_database, chatbot_service, chat_status,
                   participants, joins>>
    /\ UNCHANGED outside_app

InProgress == Cardinality({j \in Joiners : joins[j].st = "awaiting"})

\* join_community lines 181-183 for an id nothing is stored under:
\* ValueError, answered 400
JoinNotFound(j) ==
    /\ started
    /\ joins[j].st = "idle"
    /\ ~community.exists
    /\ joins' = [joins EXCEPT ![j] = [NoJoin EXCEPT !.st = "rejected"]]
    /\ UNCHANGED <<started, use_database, chatbot_service, chat_status,
                   community, participants>>
    /\ UNCHANGED outside_app

\* lines 208-239 in one step of the event loop: the participant is
\* stored, the aggregates are raised and update_community writes them
StoreJoin(j, base, with_location, outcome) ==
    LET feasibility == join_feasibility(with_location, outcome)
        id == Len(participants) + 1
    IN  /\ participants' = Append(participants,
                                  HomeParticipant(id, feasibility))
        /\ community' = update_aggregates(base, feasibility)
        /\ joins' = [joins EXCEPT ![j] =
                        [st |-> "done", fetched_copy |-> NoCommunity,
                         solar_data |-> outcome, participant |-> id]]

\* a join without coordinates never awaits: lines 181-245 at once
JoinWithoutLocation(j) ==
    /\ started
    /\ joins[j].st = "idle"
    /\ community.exists
    /\ Len(participants) + InProgress < MaxJoins
    /\ StoreJoin(j, joined_object(use_database, community, community),
                 FALSE, NoAnalysis)
    /\ UNCHANGED <<started, use_database, chatbot_service, chat_status>>
    /\ UNCHANGED outside_app

\* a join with coordinates: get_community, then the await of line 193
JoinStart(j) ==
    /\ started
    /\ joins[j].st = "idle"
    /\ community.exists
    /\ Len(participants) + InProgress < MaxJoins
    /\ joins' = [joins EXCEPT ![j] =
                    [NoJoin EXCEPT !.st = "awaiting",
                                   !.fetched_copy = community]]
    /\ UNCHANGED <<started, use_database, chatbot_service, chat_status,
                   community, participants>>
    /\ UNCHANGED outside_app

\* the analysis returns or raises, and the join runs to its end
JoinFinish(j) ==
    /\ joins[j].st = "awaiting"
    /\ \E outcome \in JoinAnalyses :
          StoreJoin(j, joined_object(use_database, community,
                                     joins[j].fetched_copy),
                    TRUE, outcome)
    /\ UNCHANGED <<started, use_database, chatbot_service, chat_status>>
    /\ UNCHANGED outside_app

\* main.py lines 680-688: the answer is sent
JoinReturn(j) ==
    /\ joins[j].st \in {"done", "rejected"}
    /\ joins' = [joins EXCEPT ![j] = NoJoin]
    /\ UNCHANGED <<started, use_database, chatbot_service, chat_status,
                   community, participants>>
    /\ UNCHANGED outside_app

AppNext ==
    \/ StartupEvent
    \/ ChatArrives
    \/ ChatWithBot
    \/ CreateCommunity
    \/ \E j \in Joiners : JoinNotFound(j)
    \/ \E j \in Joiners : JoinWithoutLocation(j)
    \/ \E j \in Joiners : JoinStart(j)
    \/ \E j \in Joiners : JoinFinish(j)
    \/ \E j \in Joiners : JoinReturn(j)

AppSpec == Init /\ [][AppNext]_vars

\* the event loop runs the start-up handler and every request handler
\* that is ready, and requests keep arriving
AppLiveSpec ==
    /\ Init
    /\ [][AppNext]_vars
    /\ WF_vars(StartupEvent)
    /\ WF_vars(ChatArrives)
    /\ WF_vars(ChatWithBot)

\* ------------------------------------------------------------ properties
\* the request has reached Success or Unavailable (and perhaps responded)
Finished == pc \in {"Success", "Unavailable"} \/ (pc = "Idle" /\ response # 0)

\* analyze() was called in this request
Analyzed == fetched.flux_fetch # "none"

\* the high-resolution attempt ended without a usable result
NoFluxReference == layers.status = "ok" /\ ~layers.annualFluxUrl
HighResUnusable ==
    \/ layers.status = "raised"
    \/ NoFluxReference
    \/ (Analyzed /\ analysis.error)

\* the modeled provider was called and gave no analysis
ModeledFailed ==
    pvgis.status # "none" /\ pvgis_analysis_raises(pvgis)
ModeledAnswered ==
    pvgis.status # "none" /\ ~pvgis_analysis_raises(pvgis)

FromGoogle == result.data_source = Google
FromPvgis == result.data_source = Pvgis

\* C1: in every high-resolution result of a mask and a flux raster of the
\* same grid shape practically usable area <= theoretically usable area
\* <= total roof area.
C1_MonotonicAreas ==
    (Analyzed /\ ~analysis.error /\ fetched.shapes = "same") =>
        /\ RLeq(analysis.usable_roof_area_sq_meters,
                analysis.theoretically_usable_area_m2)
        /\ RLeq(analysis.theoretically_usable_area_m2,
                analysis.estimated_roof_area_sq_meters)

C1_Witness ==
    /\ Analyzed
    /\ ~analysis.error
    /\ fetched.mask_fetch = "ok"
    /\ fetched.resolution = <<1, 2>>
    /\ RLess(Zero, analysis.usable_roof_area_sq_meters)
    /\ RLess(analysis.theoretically_usable_area_m2,
             analysis.estimated_roof_area_sq_meters)

\* C2: after a high-resolution answer without a flux reference the modeled
\* provider is invoked, the missing reference itself never raises to the
\* caller, and the result the modeled provider yields is returned with
\* data_source = PVGIS.
C2_NoFluxFallsBack ==
    NoFluxReference =>
        /\ pc # "Analyze"
        /\ ~Analyzed
        /\ Finished => calls = <<Google, Pvgis>>
        /\ (Finished /\ ModeledAnswered) =>
              /\ pc # "Unavailable"
              /\ response # 500
              /\ FromPvgis
        /\ (pc = "Unavailable" \/ response = 500) => ModeledFailed

C2_Witness ==
    /\ NoFluxReference
    /\ pc = "Success"
    /\ FromPvgis
    /\ calls = <<Google, Pvgis>>

\* C3: when the high-resolution attempt and the modeled provider both
\* fail, the request ends in Unavailable: the caller gets the error
\* (HTTP 500) and no analysis result.
C3_TotalFailure ==
    (HighResUnusable /\ ModeledFailed) =>
        /\ pc \in {"Unavailable", "Idle"}
        /\ result = NoResult
        /\ pc = "Idle" => response = 500

C3_Witness ==
    /\ pc = "Unavailable"
    /\ layers.status = "raised"
    /\ pvgis.status = "raised"

\* C4: an error reaches the caller only if the high-resolution attempt
\* failed and the modeled provider failed too; a failure inside the
\* high-resolution branch alone ends in Success.
C4_ErrorOnlyIfBothFail ==
    /\ (pc = "Unavailable" \/ response = 500) =>
          (HighResUnusable /\ ModeledFailed)
    /\ (Finished /\ Analyzed /\ analysis.error /\ ModeledAnswered) =>
          (pc # "Unavailable" /\ response # 500 /\ FromPvgis)

C4_Witness ==
    /\ pc = "Success"
    /\ Analyzed
    /\ fetched.flux_fetch \in {"transfer_error", "decode_error"}
    /\ analysis.error
    /\ FromPvgis

\* C5: the modeled provider is called only after the high-resolution
\* provider was called and ended without a usable result, for every
\* value of estimated_roof_area.
C5_HighResFirst ==
    /\ Len(calls) >= 1 => calls[1] = Google
    /\ (pc = "FallbackToModeled" \/ pvgis.status # "none"
        \/ \E i \in 1..Len(calls) : calls[i] = Pvgis) =>
          /\ layers.status # "none"
          /\ HighResUnusable
          /\ calls[1] = Google

C5_Witness ==
    /\ calls = <<Google, Pvgis>>
    /\ ~IsNone(estimated_roof_area)
    /\ Analyzed
    /\ analysis.error

\* C6: a flux reference and an analysis without an error field end in
\* Success with data_source = Google Solar API.
C6_HighResSuccess ==
    (layers.status = "ok" /\ layers.annualFluxUrl
     /\ Analyzed /\ ~analysis.error) =>
        /\ pc \in {"Success", "Idle"}
        /\ pc = "Idle" => response = 200
        /\ FromGoogle
        /\ calls = <<Google>>

C6_Witness ==
    /\ pc = "Success"
    /\ FromGoogle
    /\ fetched.flux_fetch = "ok"
    /\ fetched.mask_fetch = "ok"

\* the mean the energy formula uses: `or 0` turns None into 0
ResultMeanFlux == IF IsNone(result.flux_mean) THEN Zero ELSE result.flux_mean

\* C7: in both branches annual energy = capacity_kwp x mean per-kWp flux
\* x 0.82 (rounded to 2 places), with no further factor; 1000 roof pixels
\* of 1 m2 with flux 1000 everywhere give 550 m2, 100 kWp and 82000 kWh.
C7_EnergyFormula ==
    /\ (FromGoogle \/ FromPvgis) =>
          result.estimated_annual_energy_kwh =
              Round2(RMul(RMul(result.estimated_capacity_kwp, ResultMeanFlux),
                          Rat(82, 100)))
    /\ (FromGoogle
        /\ fetched.runs = <<[mask |-> 1, flux |-> Sample(1000), n |-> 1000]>>
        /\ fetched.mask_fetch = "ok"
        /\ fetched.resolution = <<1, 1>>) =>
          /\ result.estimated_roof_area_sq_meters = Int2Rat(1000)
          /\ result.theoretically_usable_area_m2 = Int2Rat(1000)
          /\ result.usable_roof_area_sq_meters = Int2Rat(550)
          /\ result.estimated_capacity_kwp = Int2Rat(100)
          /\ result.estimated_annual_energy_kwh = Int2Rat(82000)
    /\ (FromPvgis /\ estimated_roof_area = Int2Rat(120)
        /\ pvgis.annual_pv_energy_per_kwp = Int2Rat(950)) =>
          /\ result.estimated_capacity_kwp = Int2Rat(12)
          /\ result.estimated_annual_energy_kwh = Int2Rat(9348)

C7_Witness ==
    /\ pc = "Success"
    /\ FromGoogle
    /\ fetched.runs = <<[mask |-> 1, flux |-> Sample(1000), n |-> 1000]>>
    /\ fetched.mask_fetch = "ok"
    /\ fetched.resolution = <<1, 1>>
    /\ result.estimated_annual_energy_kwh = Int2Rat(82000)

\* the pixels the claim counts: mask nonzero and flux > 0.75 x mean
RECURSIVE GoodRoofPixels(_, _)
GoodRoofPixels(runs, mean) ==
    IF runs = <<>> THEN 0
    ELSE (IF /\ Head(runs).mask # 0
             /\ Head(runs).flux.finite
             /\ 4 * Head(runs).flux.v * mean.den > 3 * mean.num
          THEN Head(runs).n ELSE 0)
         + GoodRoofPixels(Tail(runs), mean)

\* C8: theoretically usable area = pixel_area x number of pixels with a
\* nonzero mask sample and flux > 0.75 x mean flux, whatever nonzero value
\* marks a roof pixel.
C8_TheoreticalArea ==
    (Analyzed /\ ~analysis.error /\ fetched.mask_fetch = "ok"
        /\ fetched.shapes = "same") =>
        analysis.theoretically_usable_area_m2 =
            Int2Rat(GoodRoofPixels(fetched.runs, analysis.flux_stats.mean)
                    * fetched.resolution[1] * fetched.resolution[2])

\* C9: a usable area of 0 gives capacity 0 and annual energy 0 and no
\* error, in the high-resolution branch (no usable pixels) and in the
\* fallback branch (estimated_roof_area = 0).
C9_ZeroArea ==
    /\ (Analyzed /\ fetched.flux_fetch = "ok"
        /\ (fetched.mask_fetch = "none"
            \/ (fetched.mask_fetch = "ok"
                /\ fetched.shapes = "same"
                /\ FiniteCount(fetched.runs) > 0
                /\ \A i \in 1..Len(fetched.runs) :
                      combined_mask(fetched.runs[i].mask,
                          good_flux_mask(fetched.runs[i].flux,
                              flux_threshold(analysis.flux_stats.mean))) = 0))) =>
          /\ ~analysis.error
          /\ analysis.usable_roof_area_sq_meters = Zero
          /\ analysis.estimated_capacity_kwp = Zero
          /\ analysis.estimated_annual_energy_kwh = Zero
          /\ FromGoogle
    /\ ((FromGoogle \/ FromPvgis) /\ result.usable_roof_area_sq_meters = Zero) =>
          /\ result.estimated_capacity_kwp = Zero
          /\ result.estimated_annual_energy_kwh = Zero
    /\ (estimated_roof_area = Zero /\ ModeledAnswered) =>
          /\ FromPvgis
          /\ pc # "Unavailable"
          /\ result.estimated_capacity_kwp = Zero
          /\ result.estimated_annual_energy_kwh = Zero

C9_Witness ==
    /\ pc = "Success"
    /\ FromGoogle
    /\ fetched.mask_fetch = "ok"
    /\ RLess(Zero, result.estimated_roof_area_sq_meters)
    /\ RLess(Zero, ResultMeanFlux)
    /\ result.usable_roof_area_sq_meters = Zero
    /\ result.estimated_annual_energy_kwh = Zero

\* C10: with a flux reference and no mask reference the analysis of the
\* decoded flux raster has no error field; the three areas, the capacity
\* and the annual energy are 0.
C10_NoMask ==
    (layers.annualFluxUrl /\ ~layers.maskUrl
     /\ Analyzed /\ fetched.flux_fetch = "ok") =>
        /\ ~analysis.error
        /\ analysis.estimated_roof_area_sq_meters = Zero
        /\ analysis.theoretically_usable_area_m2 = Zero
        /\ analysis.usable_roof_area_sq_meters = Zero
        /\ analysis.estimated_capacity_kwp = Zero
        /\ analysis.estimated_annual_energy_kwh = Zero
        /\ FromGoogle

C10_Witness ==
    /\ pc = "Success"
    /\ layers.annualFluxUrl
    /\ ~layers.maskUrl
    /\ fetched.flux_fetch = "ok"
    /\ RLess(Zero, ResultMeanFlux)
    /\ ~analysis.error
    /\ result.estimated_annual_energy_kwh = Zero

\* C11: the fallback branch uses the supplied estimated_roof_area whenever
\* one is supplied (0 included) and 100 m2 exactly when none is supplied.
C11_FallbackRoofArea ==
    FromPvgis =>
        /\ IsNone(estimated_roof_area) =>
              result.estimated_roof_area_sq_meters = Int2Rat(100)
        /\ ~IsNone(estimated_roof_area) =>
              result.estimated_roof_area_sq_meters = estimated_roof_area
        /\ result.usable_roof_area_sq_meters =
              Round2(RMul(result.estimated_roof_area_sq_meters, Rat(55, 100)))

C11_Witness ==
    /\ pc = "Success"
    /\ FromPvgis
    /\ estimated_roof_area = Zero
    /\ result.estimated_roof_area_sq_meters = Zero

\* C12 as stated: fallback capacity = roof area / 6.5.
C12_CapacityBy65 ==
    FromPvgis =>
        result.estimated_capacity_kwp =
            Round2(RDiv(result.estimated_roof_area_sq_meters, Rat(65, 10)))

\* C12, amended: fallback capacity = usable area (0.55 x roof area) / 5.5,
\* the constant of the high-resolution branch, i.e. roof area / 10.
C12_FallbackCapacity ==
    /\ pvgis_area_per_kwp = area_per_kwp
    /\ FromPvgis =>
          /\ RMul(result.estimated_capacity_kwp, Int2Rat(10)) =
                result.estimated_roof_area_sq_meters
          /\ RMul(result.estimated_capacity_kwp, Rat(55, 10)) =
                result.usable_roof_area_sq_meters

C12_Witness ==
    /\ pc = "Success"
    /\ FromPvgis
    /\ IsNone(estimated_roof_area)
    /\ result.estimated_capacity_kwp = Int2Rat(10)

\* the samples of an array that are neither masked nor non-finite
ValidSamples(runs) ==
    LET f[i \in 0..Len(runs)] ==
            IF i = 0 THEN 0
            ELSE f[i - 1] + (IF runs[i].flux.masked \/ ~runs[i].flux.finite
                             THEN 0 ELSE runs[i].n)
    IN  f[Len(runs)]

\* C13: get_statistics returns for every array: count 0 and min, max,
\* mean, std, median all null when every sample is masked or non-finite,
\* and otherwise count = the number of valid samples (with numbers in the
\* other fields, min <= median <= max and min <= mean <= max).
C13_StatisticsTotal ==
    stats # NoStats =>
        /\ stats.count = ValidSamples(stats_array)
        /\ stats.count = 0 =>
              /\ IsNone(stats.min) /\ IsNone(stats.max) /\ IsNone(stats.mean)
              /\ IsNone(stats.median) /\ stats.std_is_none
        /\ stats.count > 0 =>
              /\ ~IsNone(stats.min) /\ ~IsNone(stats.max)
              /\ ~IsNone(stats.mean) /\ ~IsNone(stats.median)
              /\ ~stats.std_is_none
              /\ RLeq(stats.min, stats.median) /\ RLeq(stats.median, stats.max)
              /\ RLeq(stats.min, stats.mean) /\ RLeq(stats.mean, stats.max)

\* an array with one masked and one NaN sample and nothing else
C13_Witness ==
    /\ stats_array = <<[mask |-> 0, flux |-> MaskedSample(3), n |-> 1],
                       [mask |-> 0, flux |-> NaN, n |-> 1]>>
    /\ stats # NoStats
    /\ stats.count = 0
    /\ IsNone(stats.mean)

\* the samples of a decoded raster that are numbers other than the
\* declared nodata sentinel
DataSamples(runs) ==
    LET f[i \in 0..Len(runs)] ==
            IF i = 0 THEN 0
            ELSE f[i - 1] + (IF runs[i].flux.finite /\ runs[i].flux.v # nodata
                             THEN runs[i].n ELSE 0)
    IN  f[Len(runs)]

\* C14 as stated: the flux statistics of an analysis are taken over the
\* samples other than the nodata sentinel of the raster.
C14_NodataExcluded ==
    (Analyzed /\ ~analysis.error /\ fetched.shapes = "same") =>
        /\ analysis.flux_stats.count = DataSamples(fetched.runs)
        /\ analysis.flux_stats.count > 0 =>
              RLess(Int2Rat(nodata), analysis.flux_stats.min)

\* C15: a download_geotiff call with a cache_key that starts after an
\* earlier call with the same key has returned (the latest such call, no
\* clear_cache in between) sends no request of its own, so that the two
\* send at most one, and returns the bytes the earlier call returned.
C15_SecondCallHits ==
    \A c \in Callers :
        downloads[c].prior # {} =>
            /\ downloads[c].st = "returned"
            /\ ~downloads[c].requested
            /\ downloads[c].prior = {downloads[c].ret}

\* a second call has returned the bytes <<2, 2>> of a first one
C15_Witness ==
    \E c \in Callers :
        /\ downloads[c].st = "returned"
        /\ downloads[c].key \in CacheKeys
        /\ downloads[c].prior = {<<2, 2>>}
        /\ downloads[c].ret = <<2, 2>>
        /\ ~downloads[c].requested

\* C16: a stored entry stays until clear_cache: only a clear_cache step
\* removes a key, a fetch that starts while its key is stored is served
\* the stored bytes without a request, and right after clear_cache the
\* cache holds nothing and has size 0.
C16_EntriesStay ==
    [][/\ (\E k \in DOMAIN cache : k \notin DOMAIN cache') => ClearCache
       /\ \A c \in Callers :
             (/\ downloads[c].st = "idle"
              /\ downloads'[c].st # "idle"
              /\ downloads'[c].key \in DOMAIN cache) =>
                 /\ downloads'[c].st = "returned"
                 /\ downloads'[c].ret = cache[downloads'[c].key]
                 /\ ~downloads'[c].requested
                 /\ cache' = cache
       /\ ClearCache => (DOMAIN cache' = {} /\ get_cache_size(cache') = 0)
      ]_vars

\* both keys are stored and a caller has been served from the cache
C16_Witness ==
    /\ DOMAIN cache = CacheKeys
    /\ get_cache_size(cache) = 3
    /\ \E c \in Callers :
          /\ downloads[c].st = "returned"
          /\ ~downloads[c].requested
          /\ downloads[c].key \in DOMAIN cache

\* C17: a request never waits on a call without limit, and every request
\* that is in TryHighRes, Analyze or FallbackToModeled eventually reaches
\* Success or Unavailable.
C17_Terminates ==
    /\ [](pc # "Hung")
    /\ (pc \in {"TryHighRes", "Analyze", "FallbackToModeled"})
          ~> (pc \in {"Success", "Unavailable"})

\* both providers failed (as they do when silent) and the request ended
C17_Witness ==
    /\ pc = "Unavailable"
    /\ layers = RaisedLayers
    /\ pvgis = RaisedAnswer
    /\ calls = <<Google, Pvgis>>

\* C18: the grant for c kWp is 0 for c <= 0, 700 c for 0 < c <= 2,
\* 1400 + 200 (c - 2) for 2 < c <= 4 and 1800 for c >= 4; it never
\* exceeds 1800.  Stated in euro cents of a capacity of k/100 kWp.
C18_GrantPiecewise ==
    ~IsNone(grant_amount) =>
        LET k == (system_capacity_kwp.num * 100) \div system_capacity_kwp.den
        IN  /\ system_capacity_kwp = Rat(k, 100)
            /\ k <= 0 => grant_amount = Zero
            /\ (0 < k /\ k <= 200) => grant_amount = Int2Rat(7 * k)
            /\ (200 < k /\ k <= 400) =>
                  grant_amount = Int2Rat(1400 + 2 * (k - 200))
            /\ k >= 400 => grant_amount = Int2Rat(1800)
            /\ RLeq(grant_amount, Int2Rat(1800))
            /\ RLeq(Zero, grant_amount)

\* 3.25 kWp earns 1400 + 200 x 1.25 = 1650
C18_Witness ==
    /\ system_capacity_kwp = Rat(325, 100)
    /\ grant_amount = Int2Rat(1650)

\* b is what is left of a when its oldest messages are dropped
IsSuffix(b, a) ==
    /\ Len(b) <= Len(a)
    /\ b = SubSeq(a, Len(a) - Len(b) + 1, Len(a))

\* C19: a request that carried a session_id handed out by an earlier
\* response (the session not cleared since) is answered in that session:
\* same session_id, and the conversation_history of the response is the
\* history now stored for the session, which continues the one stored
\* before and ends with the user message and the assistant reply.
C19_SameSession ==
    [][\A c \in Clients :
          (/\ chats[c].st = "generating"
           /\ chats'[c].st = "responded"
           /\ chats[c].carried # NoSession) =>
              LET sid == chats[c].carried
                  r == chats'[c]
                  before == IF sid \in DOMAIN sessions THEN sessions[sid]
                            ELSE <<>>
                  n == Len(r.conversation_history)
              IN  /\ r.session_id = sid
                  /\ sid \in DOMAIN sessions'
                  /\ r.conversation_history = sessions'[sid]
                  /\ n >= 2
                  /\ r.conversation_history[n - 1] = Message("user", r.message)
                  /\ r.conversation_history[n] =
                        Message("assistant", r.response)
                  /\ IsSuffix(r.conversation_history,
                              before \o <<Message("user", r.message),
                                          Message("assistant", r.response)>>)
                  /\ n >= Len(before)
      ]_vars

\* the second exchange of a session has been answered
C19_Witness ==
    \E c \in Clients :
        /\ chats[c].st = "responded"
        /\ chats[c].carried # NoSession
        /\ chats[c].session_id = chats[c].carried
        /\ Len(chats[c].conversation_history) = 4
        /\ chats[c].conversation_history[1].content = "q1"
        /\ chats[c].conversation_history[3].content = "q2"

\* the high-resolution provider raised, or analyze returned an error field
HighResFailed ==
    \/ layers.status = "raised"
    \/ (Analyzed /\ analysis.error)

\* C20: when the high-resolution call raises or analyze returns an error,
\* the request goes on to the modeled provider, which is asked about the
\* coordinates of the request; the request fails only if that provider
\* fails as well.
C20_FallbackSameCoordinates ==
    HighResFailed =>
        /\ pc \in {"FallbackToModeled", "Success", "Unavailable", "Idle"}
        /\ queried.google = location
        /\ pc = "FallbackToModeled" =>
              (calls = <<Google>> /\ queried.pvgis = NoLocation)
        /\ pc # "FallbackToModeled" =>
              /\ calls = <<Google, Pvgis>>
              /\ pvgis.status # "none"
              /\ queried.pvgis = location
        /\ (pc = "Unavailable" \/ response = 500) => ModeledFailed
        /\ (pc = "Success" \/ response = 200) => FromPvgis

\* a decode failure at the second location, answered by the modeled provider
C20_Witness ==
    /\ pc = "Success"
    /\ location = <<52, -10>>
    /\ fetched.flux_fetch = "decode_error"
    /\ analysis.error
    /\ queried.pvgis = <<52, -10>>
    /\ FromPvgis

\* C21 as stated: a flux raster without a valid sample gives an analysis
\* without an error field and with annual energy 0, with or without a mask.
C21_ZeroSamplesNoError ==
    (Analyzed /\ fetched.flux_fetch = "ok" /\ fetched.shapes = "same"
        /\ get_statistics(fetched.runs).count = 0) =>
        /\ ~analysis.error
        /\ IsNone(analysis.flux_stats.mean)
        /\ analysis.estimated_annual_energy_kwh = Zero

\* C22 as stated: a zero or negative input area gives capacity 0 and
\* annual energy 0, in the high-resolution branch and in the fallback.
C22_ZeroForNonPositiveArea ==
    /\ (Analyzed /\ ~analysis.error
           /\ RLeq(analysis.usable_roof_area_sq_meters, Zero)) =>
          /\ analysis.estimated_capacity_kwp = Zero
          /\ analysis.estimated_annual_energy_kwh = Zero
    /\ (FromPvgis /\ RLeq(result.estimated_roof_area_sq_meters, Zero)) =>
          /\ result.estimated_capacity_kwp = Zero
          /\ result.estimated_annual_energy_kwh = Zero

\* the mask raster and the flux raster of this analysis differ in shape
ShapeMismatch ==
    Analyzed /\ fetched.mask_fetch = "ok" /\ fetched.shapes # "same"

\* C23 as stated: with mask and flux rasters of different shapes the
\* analysis reports an error, the request does not end as a success, and
\* no area figure is derived from the pair.
C23_MismatchFailsLoudly ==
    ShapeMismatch =>
        /\ analysis.error
        /\ pc # "Success"
        /\ response # 200

\* C24 as stated: of two download_geotiff calls with the same cache_key
\* that overlap, at most one sends a request (so at most one is ever
\* waiting for the answer to its GET).
C24_OverlapOneRequest ==
    \A c1, c2 \in Callers :
        (/\ c1 # c2
         /\ downloads[c1].key # NoKey
         /\ downloads[c1].key = downloads[c2].key
         /\ downloads[c1].st = "awaiting") =>
            downloads[c2].st # "awaiting"

\* C25 as stated: once an analysis has downloaded a layer, a later
\* analysis (the cache not cleared in between) gets that layer from the
\* cache and sends no request for it.
C25_AnalysisUsesCache ==
    \A c \in Callers :
        downloads[c].repeat =>
            /\ downloads[c].st = "returned"
            /\ ~downloads[c].requested

\* C26 as stated: when a join with coordinates ends and its analysis
\* succeeded, the participant is stored with a feasibility estimate and
\* the community's total capacity and total annual energy grow by the
\* capacity and the annual energy the analysis estimated.
C26_JoinAddsEstimate ==
    [][\A j \in Joiners :
          (/\ joins[j].st = "awaiting"
           /\ joins'[j].st = "done"
           /\ ~joins'[j].solar_data.raised) =>
              LET estimate == joins'[j].solar_data.result
              IN  /\ participants'[joins'[j].participant].feasibility
                        # NoFeasibility
                  /\ community'.total_capacity_kwp =
                        RAdd(joined_object(use_database, community,
                                 joins[j].fetched_copy).total_capacity_kwp,
                             estimate.estimated_capacity_kwp)
                  /\ community'.total_annual_energy_kwh =
                        RAdd(joined_object(use_database, community,
                               joins[j].fetched_copy).total_annual_energy_kwh,
                             estimate.estimated_annual_energy_kwh)]_vars

\* C27 as stated: once start-up has completed, chatbot_service is
\* eventually set, and from then on a chat request is not answered 503.
C27_ChatbotInitialized ==
    started ~> (chatbot_service # NoService)

\* C28 as stated: whenever no join is in progress, participant_count and
\* interested_count both equal the number of joins that succeeded, with
\* the in-memory repository and with the database repository.
C28_NoLostJoin ==
    (\A j \in Joiners : joins[j].st # "awaiting") =>
        /\ community.participant_count = Len(participants)
        /\ community.interested_count = Len(participants)

\* history s is the tail of history t
IsTail(s, t) ==
    /\ Len(s) <= Len(t)
    /\ s = SubSeq(t, Len(t) - Len(s) + 1, Len(t))

Alternates(history) ==
    \A i \in 1..Len(history) :
        history[i].role = IF i % 2 = 1 THEN "user" ELSE "assistant"

Min2(a, b) == IF a < b THEN a ELSE b

\* C29: every stored history has even length of at most
\* 2 * MAX_HISTORY_MESSAGES and alternates user, assistant; and a step
\* that changes a stored history leaves the newest messages of the old
\* history followed by the new pair, as many as the limit allows (the
\* oldest are the ones dropped).
C29_HistoryShape ==
    /\ [](\A k \in DOMAIN sessions :
              /\ Len(sessions[k]) % 2 = 0
              /\ Len(sessions[k]) <= 2 * MAX_HISTORY_MESSAGES
              /\ Alternates(sessions[k]))
    /\ [][\A c \in Clients :
              (chats[c].st = "generating" /\ chats'[c].st = "responded") =>
                  LET k == chats[c].session_id
                      old == IF k \in DOMAIN sessions THEN sessions[k]
                             ELSE <<>>
                      appended ==
                          old \o <<Message("user", chats[c].message),
                                   Message("assistant", chats'[c].response)>>
                  IN  /\ k \in DOMAIN sessions'
                      /\ IsTail(sessions'[k], appended)
                      /\ Len(sessions'[k]) =
                            Min2(Len(appended), 2 * MAX_HISTORY_MESSAGES)]_vars

\* a full history has just lost its oldest exchange to a new one
C29_Witness ==
    \E c \in Clients :
        /\ chats[c].st = "responded"
        /\ chats[c].dropped = 2
        /\ chats[c].session_id \in DOMAIN sessions
        /\ sessions[chats[c].session_id] = chats[c].conversation_history
        /\ Len(chats[c].conversation_history) = 2 * MAX_HISTORY_MESSAGES

\* C30 as stated: when the generation of a request fails, the session
\* store is as it was before the request: the step changes no history,
\* and a session the request itself opened is not in the store.
C30_FailureLeavesStore ==
    [][\A c \in Clients :
          (chats[c].st = "generating" /\ chats'[c].st = "idle") =>
              /\ sessions' = sessions
              /\ chats[c].created =>
                    chats[c].session_id \notin DOMAIN sessions']_vars
====
